---- MODULE Spec2Model ----
(***************************************************************************)
(* BugBooth: the front-end's capture sequence (photobooth_gui.py) and the  *)
(* camera process (camera_server.py), modelled as cooperating workers that *)
(* talk through the control.sock / capture.sock datagram endpoints.        *)
(*                                                                         *)
(* Fractions of a click (x, y in [0, 1]) are kept in hundredths: the       *)
(* comparisons of the source against 0.3, 0.7, 0.45 and 0.55 become        *)
(* comparisons against 30, 70, 45 and 55.                                  *)
(***************************************************************************)
EXTENDS Integers, Sequences, FiniteSets, TLC

(* ------------------------------ bounds -------------------------------- *)

\* number of SequenceThread objects the window may create in one run
MaxSequences == 2
\* number of mouse clicks delivered to the window in one run
MaxClicks == 2
\* the same, where the clicks are what is checked
MaxPermitClicks == 3
\* clicks that may wait unread in the click queue where their number is free
MaxQueue == 1
\* datagrams that may wait unread on "control.sock" where their number is free
MaxControlQueue == 2
\* datagrams that senders other than the front-end put on "control.sock" in one run
MaxDatagrams == 2
\* times camera.init() may fail in one call of _open_camera by the main thread
MaxInitFailures == 2
\* largest page margin of the checked configurations, in pixels
MaxMargin == 2
\* largest boothconfig.DelayBetweenShots of the checked configurations, in seconds
MaxDelay == 11
\* frames written to the preview stream in one run
MaxFrames == 2
\* bytes in the payload of a frame
MaxFrameLen == 2
\* boothconfig.PhotosPerStrip of the checked configuration
PhotosPerStrip == 2
\* boothconfig.CountdownTimer of the checked configuration
CountdownTimer == 1

(* ------------------------- program constants -------------------------- *)

InitialCopies == 2
CopiesStep == 2
MaxCopies == 6
MinCopies == 0
SelectIterations == 200
\* capture_socket.settimeout(10), in seconds
RecvTimeout == 10
BandLow == 30
BandHigh == 70
IncrementAbove == 55
DecrementBelow == 45

Threads == 1..MaxSequences
\* the names tempfile.mktemp draws from: one for every capture of the run
Names == 1..(MaxSequences * PhotosPerStrip)
\* the path "mock_image.jpg" sent in mock mode
MockImage == 0

\* click positions <<x, y>> in hundredths: left of, on the edges of, inside and
\* right of the band 0.45-0.55, in the row 0.3 < y < 0.7 and on its edge
SelectClicks == {<<40, 50>>, <<45, 50>>, <<50, 50>>, <<55, 50>>, <<60, 50>>, <<60, 30>>}
\* one click of each kind: right of the band, inside it, outside the row
LoopClicks == {<<60, 50>>, <<50, 50>>, <<60, 30>>}
\* clicks outside the row 0.3 < y < 0.7, on its edges and beyond them, left
\* of, inside and right of the band, and one click of the row
RowClicks == {<<40, 30>>, <<50, 70>>, <<60, 20>>, <<60, 50>>}
\* the clicks used where only their arrival matters
PlainClicks == {<<50, 50>>, <<60, 50>>}

VARIABLES
    sequence_sem,   \* CameraControlWindow.sequence_sem (threading.Semaphore)
    click_queue,    \* CameraControlWindow.click_queue
    thr,            \* the SequenceThread objects, by number
    nstarted,       \* SequenceThread objects created so far
    capture_path,   \* number of the thread whose socket is bound at "capture.sock", 0: no such file
    overlay,        \* what OverlayText shows: [text, topleft]
    nclicks,        \* clicks delivered so far
    ndrains,        \* calls of _empty_click_queue begun so far (history)
    bg_mode,        \* boothconfig.BackgroundMode
    do_print,       \* --do_print
    mock,           \* --mock
    control_buf,    \* datagrams waiting on "control.sock"
    ctrl,           \* the camera process's control worker
    io_lock,        \* PBCamera.io_lock: "free" or its holder
    files,          \* names of the image files saved in "."
    variant,        \* the PBCamera class the camera process runs
    prev,           \* the camera process's preview worker
    main,           \* the camera process's main thread: exec_server
    receiver,       \* the front-end's ImageReceiverStream worker
    preview_stream, \* the stream socket the receiver reads: bytes on the way, bytes arrived, peer closed
    env,            \* what is outside the two programs: the datagrams others sent to
                    \* "control.sock", the frames written to the stream, the state of "preview.sock"
    Margins,        \* boothconfig.Margins: <<top, right, bottom, left>>
    photostrip,     \* a Photostrip object and the calls made on it
    DelayBetweenShots,  \* boothconfig.DelayBetweenShots, in seconds
    clock           \* seconds since the last capture request was sent, where time is followed

vars == <<sequence_sem, click_queue, thr, nstarted, capture_path, overlay, nclicks,
          ndrains, bg_mode, do_print, mock, control_buf, ctrl, io_lock, files,
          variant, prev, main, receiver, preview_stream, env, Margins, photostrip,
          DelayBetweenShots, clock>>

rx_vars == <<receiver, preview_stream>>

gui_vars == <<sequence_sem, click_queue, thr, nstarted, capture_path, overlay, nclicks, ndrains>>
cam_vars == <<control_buf, ctrl, io_lock, files>>
cfg_vars == <<bg_mode, do_print, mock, variant, DelayBetweenShots>>

(* ------------------------------ helpers ------------------------------- *)

Min(a, b) == IF a < b THEN a ELSE b
Max(a, b) == IF a > b THEN a ELSE b

NoReq == <<0, 0>>

\* a text of the overlay: what is written and the numbers in it
Txt(kind, a, b) == [kind |-> kind, a |-> a, b |-> b]
Blank == Txt("", 0, 0)

\* no click read yet by the selection loop (history)
NoClick == [x |-> 0, y |-> 0, before |-> 0]

\* a SequenceThread that has not been created; slots, dropped, ntimeouts,
\* last, pastes and waited are history (pastes: where composite() pasted thumbnails;
\* waited: the clock when the last capture wait ended): what was recorded for which shot, whether the drain
\* dropped a click, the waits that timed out, the click the selection loop read last
\* and the copy count it found
NewThread ==
    [pc |-> "new", i |-> 0, c |-> 0, image_files |-> <<>>, slots |-> <<>>,
     timer |-> "off", rxbuf |-> <<>>, ncopies |-> 0, it |-> 0, nprints |-> 0,
     dropped |-> FALSE, ntimeouts |-> 0, last |-> NoClick, err |-> "",
     pastes |-> <<>>, waited |-> 0]

\* a SequenceThread whose run() has returned ("done") or raised ("crashed"):
\* its locals, the capture socket among them, are gone
EndedThread(how, err) == [NewThread EXCEPT !.pc = how, !.err = err]

Alive(t) == thr[t].pc \notin {"new", "done", "crashed"}
Active == {t \in Threads : Alive(t)}

\* the socket bound by run() is open from the bind to the end of run()
SocketOpen(t) == thr[t].pc \notin {"new", "bind", "done", "crashed"}

(* --------------------------- Photostrip -------------------------------- *)

\* the [Composition] values of the checked configuration file, in pixels
boothconfig ==
    [ThumbnailWidth |-> 40, ThumbnailX |-> 10, ThumbnailY |-> 20,
     ThumbnailSkipX |-> 5, ThumbnailSkipY |-> 3]
\* photos[0].size of the checked runs: width and height
PhotoSize == <<60, 40>>

\* thumb_h = int(thumb_w / img_aspect), img_aspect = img_w / img_h
thumb_h == (boothconfig.ThumbnailWidth * PhotoSize[2]) \div PhotoSize[1]

\* vpos = top_offset + (thumb_h + skip_y) * i, for i counted from 0
vpos_unspaced(i) == boothconfig.ThumbnailY + thumb_h * i
vpos(i) == boothconfig.ThumbnailY + (thumb_h + boothconfig.ThumbnailSkipY) * i

\* the bg.paste calls of composite() for k photos: <<photo, left, top>>, in
\* the order they are made
composite_pastes(k, mode) ==
    IF mode = "SingleVerticaL"
    THEN [j \in 1..k |-> <<j - 1, boothconfig.ThumbnailX, vpos(j - 1)>>]
    ELSE IF mode = "DoubleVertical"
    THEN [j \in 1..(2 * k) |->
            IF j % 2 = 1
            THEN <<(j - 1) \div 2, boothconfig.ThumbnailX, vpos((j - 1) \div 2)>>
            ELSE <<(j - 1) \div 2,
                   boothconfig.ThumbnailX + boothconfig.ThumbnailSkipX
                       + boothconfig.ThumbnailWidth,
                   vpos((j - 1) \div 2)>>]
    ELSE <<>>

\* Photostrip.composite: how the call ends for a list of photo paths
composite(photo_list, mode) ==
    IF Len(photo_list) = 0 THEN "IndexError"            \* photos[0].size
    ELSE IF mode = "SingleVerticaL" THEN "ok"
    ELSE IF mode = "DoubleVertical" THEN "ok"
    ELSE "AssertionError"                               \* assert False

\* bg.size of the checked runs: width and height of the background image
BgSize == <<100, 300>>

\* no image: composited_im before composite(), no page before make_printable()
NoImage == [size |-> <<0, 0>>, pastes |-> <<>>]

\* Photostrip(photos) for a list of k photos; printable and saved are history:
\* the page make_printable() returned and whether "output.jpg" was written by
\* it; err is the exception a call raised and called the method called last
NewPhotostrip(k) ==
    [photo_list |-> [j \in 1..k |-> j], composited_im |-> NoImage,
     printable |-> NoImage, saved |-> FALSE, err |-> "", called |-> ""]

\* the object after composite(): self.composited_im = bg, or the exception
composited(ps, mode) ==
    LET res == composite(ps.photo_list, mode) IN
    IF res = "ok"
    THEN [ps EXCEPT !.composited_im =
             [size |-> BgSize, pastes |-> composite_pastes(Len(ps.photo_list), mode)]]
    ELSE [ps EXCEPT !.err = res]

\* the page of make_printable() for an object that has its composite:
\* Image.new of the page size and the concat.paste calls, <<left, top>>
printable_page(im, mode, m) ==
    LET t_margin == m[1]
        r_margin == m[2]
        b_margin == m[3]
        l_margin == m[4]
        im_w == im.size[1]
        im_h == im.size[2]
    IN IF mode = "SingleVertical"
       THEN [size |-> <<im_w * 2 + l_margin + r_margin, im_h + t_margin + b_margin>>,
             pastes |-> << <<l_margin, t_margin>>, <<im_w + l_margin, t_margin>> >>]
       ELSE IF mode = "DoubleVertical"
       THEN [size |-> <<im_w + l_margin + r_margin, im_h + t_margin + b_margin>>,
             pastes |-> << <<l_margin, t_margin>> >>]
       ELSE im

\* the object after make_printable(): composite() first when there is no
\* composite, then the page and concat.save("output.jpg")
make_printable(ps, mode, m) ==
    LET c == IF ps.composited_im = NoImage THEN composited(ps, mode) ELSE ps IN
    IF c.err # "" THEN c
    ELSE [c EXCEPT !.printable = printable_page(c.composited_im, mode, m),
                   !.saved = TRUE]

\* a caller calls photostrip.composite()
StripComposite ==
    /\ photostrip.err = ""
    /\ photostrip.printable = NoImage
    /\ photostrip.composited_im = NoImage
    /\ photostrip' = [composited(photostrip, bg_mode) EXCEPT !.called = "composite"]
    /\ UNCHANGED <<gui_vars, cam_vars, cfg_vars, Margins, clock, main, env, rx_vars, prev>>

\* a caller calls photostrip.make_printable()
StripMakePrintable ==
    /\ photostrip.err = ""
    /\ photostrip.printable = NoImage
    /\ photostrip' = [make_printable(photostrip, bg_mode, Margins)
                          EXCEPT !.called = "make_printable"]
    /\ UNCHANGED <<gui_vars, cam_vars, cfg_vars, Margins, clock, main, env, rx_vars, prev>>

(* ------------------------ the window's clicks -------------------------- *)

\* threading.Semaphore.acquire(blocking=False) succeeds
sem_acquire_always == TRUE
sem_acquire == sequence_sem > 0

\* CameraControlWindow.handleClick
handleClick(x, y) ==
    /\ IF sem_acquire
       THEN /\ nstarted < MaxSequences
            /\ sequence_sem' = sequence_sem - 1
            /\ nstarted' = nstarted + 1
            /\ thr' = [thr EXCEPT ![nstarted + 1].pc = "bind"]
            /\ UNCHANGED click_queue
       ELSE /\ click_queue' = Append(click_queue, [x |-> x, y |-> y, born |-> ndrains])
            /\ UNCHANGED <<sequence_sem, nstarted, thr>>
    /\ UNCHANGED <<capture_path, overlay, ndrains, cfg_vars, Margins, photostrip, clock, main, env, rx_vars, prev, cam_vars>>

\* one more click of a run that delivers at most max of them
Click(x, y, max) ==
    /\ nclicks < max
    /\ nclicks' = nclicks + 1
    /\ handleClick(x, y)

\* a click of a run with any number of clicks, at most MaxQueue of them unread
QueuedClick(x, y) ==
    /\ Len(click_queue) < MaxQueue
    /\ handleClick(x, y)
    /\ UNCHANGED nclicks

(* --------------------------- SequenceThread ---------------------------- *)

ShotLabel(i) == Txt("shot", i + 1, PhotosPerStrip)

\* the head of "for i in range(n_images)": shot i begins with its countdown
EnterShotAtOnce(r, i) == [r EXCEPT !.i = i, !.c = 0, !.pc = "send"]
EnterShot(r, i) ==
    [r EXCEPT !.i = i, !.c = CountdownTimer,
              !.pc = IF CountdownTimer > 0 THEN "countdown" ELSE "send"]

\* run(), lines 391-402: bind "capture.sock" afresh, start the first shot
SeqBind(t) ==
    /\ thr[t].pc = "bind"
    /\ capture_path' = t
    /\ thr' = [thr EXCEPT ![t] = IF PhotosPerStrip > 0 THEN EnterShot(@, 0)
                                  ELSE [@ EXCEPT !.pc = "composite"]]
    /\ overlay' = IF PhotosPerStrip > 0 THEN overlay
                  ELSE [text |-> Blank, topleft |-> Txt("Processing...", 0, 0)]
    /\ UNCHANGED <<sequence_sem, click_queue, nstarted, nclicks, ndrains, cfg_vars, Margins, photostrip, clock, main, env, rx_vars, prev, cam_vars>>

\* one tick of the countdown: write the number, sleep a second
SeqCountdown(t) ==
    /\ thr[t].pc = "countdown"
    /\ overlay' = [text |-> Txt("count", thr[t].c, 0), topleft |-> ShotLabel(thr[t].i)]
    /\ thr' = [thr EXCEPT ![t].c = @ - 1,
                          ![t].pc = IF thr[t].c - 1 = 0 THEN "send" ELSE "countdown"]
    /\ UNCHANGED <<sequence_sem, click_queue, nstarted, capture_path, nclicks, ndrains,
                   cfg_vars, Margins, photostrip, clock, main, env, rx_vars, prev, cam_vars>>

\* clear the text, send the capture message, start the timer to the next shot
SeqSend(t) ==
    /\ thr[t].pc = "send"
    /\ overlay' = [text |-> Blank, topleft |-> ShotLabel(thr[t].i)]
    /\ control_buf' = Append(control_buf, [data |-> "cmd", req |-> <<t, thr[t].i>>])
    /\ thr' = [thr EXCEPT ![t].timer = "running", ![t].pc = "recv"]
    /\ clock' = 0
    /\ UNCHANGED <<sequence_sem, click_queue, nstarted, capture_path, nclicks, ndrains,
                   cfg_vars, Margins, photostrip, main, env, rx_vars, prev, ctrl, io_lock, files>>

\* capture_socket.recvfrom returns a datagram: its path is appended
SeqRecvData(t) ==
    /\ thr[t].pc = "recv"
    /\ thr[t].rxbuf # <<>>
    /\ LET m == Head(thr[t].rxbuf) IN
       thr' = [thr EXCEPT ![t].rxbuf = Tail(@),
                          ![t].image_files = Append(@, m.path),
                          ![t].slots = Append(@, [slot |-> thr[t].i, req |-> m.req]),
                          ![t].waited = clock,
                          ![t].pc = "timer"]
    /\ overlay' = [text |-> Blank, topleft |-> ShotLabel(thr[t].i)]
    /\ UNCHANGED <<sequence_sem, click_queue, nstarted, capture_path, nclicks, ndrains,
                   cfg_vars, Margins, photostrip, clock, main, env, rx_vars, prev, cam_vars>>

\* capture_socket.recvfrom raises socket.timeout after 10 s without a datagram
SeqRecvTimeout(t) ==
    /\ thr[t].pc = "recv"
    /\ thr[t].rxbuf = <<>>
    /\ thr' = [thr EXCEPT ![t].pc = "timer", ![t].ntimeouts = @ + 1, ![t].waited = clock]
    /\ overlay' = [text |-> Blank, topleft |-> ShotLabel(thr[t].i)]
    /\ UNCHANGED <<sequence_sem, click_queue, nstarted, capture_path, nclicks, ndrains,
                   cfg_vars, Margins, photostrip, clock, main, env, rx_vars, prev, cam_vars>>

\* OneshotTimer._finish: the delay between shots has elapsed
TimerFinish(t) ==
    /\ thr[t].timer = "running"
    /\ thr' = [thr EXCEPT ![t].timer = "fired"]
    /\ UNCHANGED <<sequence_sem, click_queue, nstarted, capture_path, overlay, nclicks,
                   ndrains, cfg_vars, Margins, photostrip, clock, main, env, rx_vars, prev, cam_vars>>

\* timer_before_next.wait() returns; the loop goes to the next shot or ends
SeqTimerWait(t) ==
    /\ thr[t].pc = "timer"
    /\ thr[t].timer = "fired"
    /\ IF thr[t].i + 1 < PhotosPerStrip
       THEN /\ thr' = [thr EXCEPT ![t] = EnterShot([@ EXCEPT !.timer = "off"], thr[t].i + 1)]
            /\ UNCHANGED overlay
       ELSE /\ thr' = [thr EXCEPT ![t].timer = "off", ![t].pc = "composite"]
            /\ overlay' = [text |-> Blank, topleft |-> Txt("Processing...", 0, 0)]
    /\ UNCHANGED <<sequence_sem, click_queue, nstarted, capture_path, nclicks, ndrains,
                   cfg_vars, Margins, photostrip, clock, main, env, rx_vars, prev, cam_vars>>

\* Photostrip(image_files).composite(): an exception ends run() there
SeqComposite(t) ==
    /\ thr[t].pc = "composite"
    /\ LET res == composite(thr[t].image_files, bg_mode) IN
       thr' = [thr EXCEPT ![t] =
                  IF res = "ok"
                  THEN [@ EXCEPT !.pc = "printable",
                                 !.pastes = composite_pastes(Len(thr[t].image_files), bg_mode)]
                  ELSE EndedThread("crashed", res)]
    /\ UNCHANGED <<sequence_sem, click_queue, nstarted, capture_path, overlay, nclicks,
                   ndrains, cfg_vars, Margins, photostrip, clock, main, env, rx_vars, prev, cam_vars>>

\* make_printable(), the save, overlay.write(); _empty_click_queue is entered
SeqMakePrintable(t) ==
    /\ thr[t].pc = "printable"
    /\ overlay' = [text |-> Blank, topleft |-> Blank]
    /\ ndrains' = ndrains + 1
    /\ thr' = [thr EXCEPT ![t].pc = "drain"]
    /\ UNCHANGED <<sequence_sem, click_queue, nstarted, capture_path, nclicks,
                   cfg_vars, Margins, photostrip, clock, main, env, rx_vars, prev, cam_vars>>

\* click_queue.get(block=False) raises queue.Empty
get_raises_Empty_always(q) == TRUE
get_raises_Empty(q) == q = <<>>

\* one round of _empty_click_queue: a click is taken and dropped, or queue.Empty
\* ends the loop and the selection starts with 2 copies
SeqDrain(t) ==
    /\ thr[t].pc = "drain"
    /\ IF get_raises_Empty(click_queue)
       THEN /\ thr' = [thr EXCEPT ![t].pc = "select", ![t].ncopies = InitialCopies,
                                  ![t].it = 0]
            /\ UNCHANGED click_queue
       ELSE /\ click_queue' = Tail(click_queue)
            /\ thr' = [thr EXCEPT ![t].dropped = TRUE]
    /\ UNCHANGED <<sequence_sem, nstarted, capture_path, overlay, nclicks, ndrains,
                   cfg_vars, Margins, photostrip, clock, main, env, rx_vars, prev, cam_vars>>

\* timeleft = int(20.0 - 20 * float(i) / 200)
TimeLeft(i) == (SelectIterations - i) \div 10

SelectText(n, i) == [text |-> Txt("copies", n, 0), topleft |-> Txt("timeleft", TimeLeft(i), 0)]

\* the end of one pass of "for i in range(200)"
NextIterationUncounted(r) == [r EXCEPT !.it = Min(@ + 1, SelectIterations - 1)]
NextIteration(r) ==
    [r EXCEPT !.it = @ + 1, !.pc = IF r.it + 1 >= SelectIterations THEN "print" ELSE "select"]

\* lines 457-461: the copy count after a click at (x, y), in hundredths
add_copies_uncapped(n) == n + CopiesStep
add_copies(n) == Min(n + CopiesStep, MaxCopies)
remove_one_copy(n) == Max(n - 1, MinCopies)
remove_copies(n) == Max(n - CopiesStep, MinCopies)

in_band_always(y) == TRUE
in_band(y) == BandLow < y /\ y < BandHigh

confirms(x) == DecrementBelow < x /\ x < IncrementAbove

copies_after(n, x, y) ==
    IF in_band(y)
    THEN IF x > IncrementAbove THEN add_copies(n)
         ELSE IF x < DecrementBelow THEN remove_copies(n)
         ELSE n
    ELSE n

\* line 462-464: the click ends the loop
breaks_loop(x, y) ==
    in_band(y) /\ ~(x > IncrementAbove) /\ ~(x < DecrementBelow) /\ confirms(x)

\* one pass of the selection loop in which click_queue.get times out
SeqSelectEmpty(t) ==
    /\ thr[t].pc = "select"
    /\ click_queue = <<>>
    /\ overlay' = SelectText(thr[t].ncopies, thr[t].it)
    /\ thr' = [thr EXCEPT ![t] = NextIteration(@)]
    /\ UNCHANGED <<sequence_sem, click_queue, nstarted, capture_path, nclicks, ndrains,
                   cfg_vars, Margins, photostrip, clock, main, env, rx_vars, prev, cam_vars>>

\* one pass of the selection loop in which click_queue.get returns a click
SeqSelectClick(t) ==
    /\ thr[t].pc = "select"
    /\ click_queue # <<>>
    /\ click_queue' = Tail(click_queue)
    /\ LET q == Head(click_queue)
           n == copies_after(thr[t].ncopies, q.x, q.y)
           read == [x |-> q.x, y |-> q.y, before |-> thr[t].ncopies]
       IN IF breaks_loop(q.x, q.y)
          THEN /\ overlay' = [text |-> Blank, topleft |-> Blank]
               /\ thr' = [thr EXCEPT ![t].pc = "print", ![t].last = read]
          ELSE /\ overlay' = SelectText(n, thr[t].it)
               /\ thr' = [thr EXCEPT ![t] = NextIteration([@ EXCEPT !.ncopies = n,
                                                                      !.last = read])]
    /\ UNCHANGED <<sequence_sem, nstarted, capture_path, nclicks, ndrains, cfg_vars, Margins, photostrip, clock, main, env, rx_vars, prev, cam_vars>>

\* range(ncopies >> 1): how many times the print command is run
print_runs_all(n) == n
print_runs(n) == n \div 2

\* lines 468-476: with printing on and copies chosen, "Printing..." is written
\* and the print loop is entered; otherwise the 5 s sleep comes next
SeqPrint(t) ==
    /\ thr[t].pc = "print"
    /\ IF do_print
       THEN IF thr[t].ncopies > 0
            THEN /\ overlay' = [text |-> Blank, topleft |-> Txt("Printing...", 0, 0)]
                 /\ thr' = [thr EXCEPT ![t].nprints = 0, ![t].pc = "lpr"]
            ELSE /\ UNCHANGED overlay
                 /\ thr' = [thr EXCEPT ![t].pc = "dwell"]
       ELSE /\ overlay' = [text |-> Blank, topleft |-> Txt("NoPrint", 0, 0)]
            /\ thr' = [thr EXCEPT ![t].pc = "dwell"]
    /\ UNCHANGED <<sequence_sem, click_queue, nstarted, capture_path, nclicks, ndrains,
                   cfg_vars, Margins, photostrip, clock, main, env, rx_vars, prev, cam_vars>>

\* one pass of "for i in range(ncopies >> 1)": subprocess.run("lpr ..."), or
\* the end of the loop
SeqLpr(t) ==
    /\ thr[t].pc = "lpr"
    /\ thr' = IF thr[t].nprints < print_runs(thr[t].ncopies)
              THEN [thr EXCEPT ![t].nprints = @ + 1]
              ELSE [thr EXCEPT ![t].pc = "dwell"]
    /\ UNCHANGED <<sequence_sem, click_queue, nstarted, capture_path, overlay, nclicks,
                   ndrains, cfg_vars, Margins, photostrip, clock, main, env, rx_vars, prev, cam_vars>>

\* lines 478-479: "Tap to start", sequence_sem.release(), run() returns
SeqRelease(t) ==
    /\ thr[t].pc = "dwell"
    /\ overlay' = [text |-> Blank, topleft |-> Txt("Tap to start", 0, 0)]
    /\ sequence_sem' = sequence_sem + 1
    /\ thr' = [thr EXCEPT ![t] = EndedThread("done", "")]
    /\ UNCHANGED <<click_queue, nstarted, capture_path, nclicks, ndrains, cfg_vars, Margins, photostrip, clock, main, env, rx_vars, prev, cam_vars>>

(* ------------- the capture loop followed against the clock ------------ *)

\* seconds the OneshotTimer of thread t has run: it is created, and started,
\* by the statement that follows the sendto of the request
timer_elapsed_since_wait(t) == IF thr[t].pc = "recv" THEN -1 ELSE clock - thr[t].waited
timer_elapsed(t) == clock

\* what thread t does without letting time pass: recvfrom returns as soon as
\* a datagram is there and raises socket.timeout at 10 s, the timer fires at
\* its delay, wait() returns as soon as the timer has fired
Due(t) ==
    \/ thr[t].pc = "recv" /\ thr[t].rxbuf # <<>>
    \/ thr[t].pc = "recv" /\ clock >= RecvTimeout
    \/ thr[t].timer = "running" /\ timer_elapsed(t) >= DelayBetweenShots
    \/ thr[t].pc = "timer" /\ thr[t].timer = "fired"

\* a second passes while a sequence waits for a capture result or its timer
Tick ==
    /\ \E t \in Threads : thr[t].pc \in {"recv", "timer"}
    /\ \A t \in Threads : ~Due(t)
    /\ clock' = clock + 1
    /\ UNCHANGED <<gui_vars, cam_vars, cfg_vars, Margins, photostrip, main, env, rx_vars, prev>>

\* socket.timeout is raised 10 s after recvfrom was entered
TimedRecvTimeout(t) ==
    /\ clock = RecvTimeout
    /\ SeqRecvTimeout(t)

\* threading.Timer runs _finish when the delay has passed
TimedTimerFinish(t) ==
    /\ timer_elapsed(t) = DelayBetweenShots
    /\ TimerFinish(t)

\* the steps of the capture loop, lines 402-429, with their times
TimedSequenceStep(t) ==
    \/ SeqBind(t)
    \/ SeqCountdown(t)
    \/ SeqSend(t)
    \/ SeqRecvData(t)
    \/ TimedRecvTimeout(t)
    \/ TimedTimerFinish(t)
    \/ SeqTimerWait(t)

\* the steps of run() but the capture wait that times out
SequenceStepInTime(t) ==
    \/ SeqBind(t)
    \/ SeqCountdown(t)
    \/ SeqSend(t)
    \/ SeqRecvData(t)
    \/ TimerFinish(t)
    \/ SeqTimerWait(t)
    \/ SeqComposite(t)
    \/ SeqMakePrintable(t)
    \/ SeqDrain(t)
    \/ SeqSelectEmpty(t)
    \/ SeqSelectClick(t)
    \/ SeqPrint(t)
    \/ SeqLpr(t)
    \/ SeqRelease(t)

SequenceStep(t) ==
    \/ SequenceStepInTime(t)
    \/ SeqRecvTimeout(t)

(* ------------------ camera process: the control worker ----------------- *)

\* how socket.sendto(..., "capture.sock") ends
CaptureEndpoint ==
    IF capture_path = 0 THEN "FileNotFoundError"
    ELSE IF ~SocketOpen(capture_path) THEN "ConnectionRefusedError"
    ELSE "ok"

\* the datagram is queued on the socket bound at "capture.sock"
Delivered(path, req) ==
    [thr EXCEPT ![capture_path].rxbuf = Append(@, [path |-> path, req |-> req])]

\* the control worker waiting in recvfrom; shots and sends are history: the
\* captures taken and the sendto calls made for the datagram being served
CtrlIdle == [pc |-> "recv", req |-> NoReq, target |-> 0, ret |-> "",
             shots |-> 0, sends |-> 0, err |-> ""]
\* an exception has ended _control_thread_action; err (history) names it
CtrlDead == [CtrlIdle EXCEPT !.pc = "dead"]
CtrlRaised(err) == [CtrlDead EXCEPT !.err = err]

\* tempfile.mktemp(suffix=".jpg", dir="."): a name of no existing file; the
\* names are interchangeable, so the first unused one stands for the draw
mktemp_any(existing) == Names
mktemp(existing) ==
    {n \in Names \ existing : \A m \in Names \ existing : n <= m}

\* "with self.io_lock" may enter
io_lock_ignored == TRUE
io_lock_free == io_lock = "free"

\* _control_thread_action: recvfrom returns a datagram; only a non-empty one is served
CtrlRecv ==
    /\ ctrl.pc = "recv"
    /\ control_buf # <<>>
    /\ control_buf' = Tail(control_buf)
    /\ ctrl' = IF Head(control_buf).data # ""
               THEN [CtrlIdle EXCEPT !.pc = "lock", !.req = Head(control_buf).req]
               ELSE ctrl
    /\ UNCHANGED <<gui_vars, cfg_vars, Margins, photostrip, clock, main, env, rx_vars, prev, io_lock, files>>

\* _capture_image: "with self.io_lock"
CtrlLock ==
    /\ ctrl.pc = "lock"
    /\ io_lock_free
    /\ io_lock' = "control"
    /\ ctrl' = [ctrl EXCEPT !.pc = IF mock THEN "mock_send" ELSE "capture"]
    /\ UNCHANGED <<gui_vars, cfg_vars, Margins, photostrip, clock, main, env, rx_vars, prev, control_buf, files>>

\* mock mode: the fixed path is sent; an OSError of sendto is not caught there
CtrlMockSend ==
    /\ ctrl.pc = "mock_send"
    /\ io_lock' = "free"
    /\ IF CaptureEndpoint = "ok"
       THEN /\ thr' = Delivered(MockImage, ctrl.req)
            /\ ctrl' = CtrlIdle
       ELSE /\ ctrl' = CtrlRaised(CaptureEndpoint)
            /\ UNCHANGED thr
    /\ UNCHANGED <<sequence_sem, click_queue, nstarted, capture_path, overlay, nclicks,
                   ndrains, cfg_vars, Margins, photostrip, clock, main, env, rx_vars, prev, control_buf, files>>

\* gp_camera_capture succeeds
CtrlCapture ==
    /\ ctrl.pc = "capture"
    /\ ctrl' = [ctrl EXCEPT !.pc = "download", !.shots = @ + 1]
    /\ UNCHANGED <<gui_vars, cfg_vars, Margins, photostrip, clock, main, env, rx_vars, prev, control_buf, io_lock, files>>

\* gp_camera_capture raises GPhoto2Error: _open_camera, sleep, capture again
CtrlCaptureError ==
    /\ ctrl.pc = "capture"
    /\ ctrl' = [ctrl EXCEPT !.pc = "open_init", !.ret = "capture"]
    /\ UNCHANGED <<gui_vars, cfg_vars, Margins, photostrip, clock, main, env, rx_vars, prev, control_buf, io_lock, files>>

\* _open_camera: gp.Camera().init() succeeds
CtrlOpenInit ==
    /\ ctrl.pc = "open_init"
    /\ ctrl' = [ctrl EXCEPT !.pc = "open_config"]
    /\ UNCHANGED <<gui_vars, cfg_vars, Margins, photostrip, clock, main, env, rx_vars, prev, control_buf, io_lock, files>>

\* _open_camera: init() raises GPhoto2Error: sleep 1 s and try again
CtrlOpenInitError ==
    /\ ctrl.pc = "open_init"
    /\ UNCHANGED vars

\* _open_camera: get_config() and the reads of the widgets succeed
CtrlOpenConfig ==
    /\ ctrl.pc = "open_config"
    /\ IF ctrl.ret = "capture"
       THEN /\ ctrl' = [ctrl EXCEPT !.pc = "capture", !.ret = ""]
            /\ UNCHANGED io_lock
       ELSE /\ ctrl' = CtrlIdle
            /\ io_lock' = "free"
    /\ UNCHANGED <<gui_vars, cfg_vars, Margins, photostrip, clock, main, env, rx_vars, prev, control_buf, files>>

\* a GPhoto2Error outside the two retry loops (get_config, gp_camera_file_get,
\* gp_file_save) is caught nowhere: it leaves the "with" and ends the worker
CtrlDeviceError ==
    /\ ctrl.pc \in {"open_config", "download", "save"}
    /\ ctrl' = CtrlRaised("GPhoto2Error")
    /\ io_lock' = "free"
    /\ UNCHANGED <<gui_vars, cfg_vars, Margins, photostrip, clock, main, env, rx_vars, prev, control_buf, files>>

\* gp_camera_file_get succeeds
CtrlDownload ==
    /\ ctrl.pc = "download"
    /\ ctrl' = [ctrl EXCEPT !.pc = "save"]
    /\ UNCHANGED <<gui_vars, cfg_vars, Margins, photostrip, clock, main, env, rx_vars, prev, control_buf, io_lock, files>>

\* target = tempfile.mktemp(...); gp_file_save(camera_file, target)
CtrlSave ==
    /\ ctrl.pc = "save"
    /\ \E target \in mktemp(files) :
          /\ files' = files \cup {target}
          /\ ctrl' = [ctrl EXCEPT !.pc = "send", !.target = target]
    /\ UNCHANGED <<gui_vars, cfg_vars, Margins, photostrip, clock, main, env, rx_vars, prev, control_buf, io_lock>>

\* sendto(target, "capture.sock"): only ConnectionRefusedError is caught;
\* then _open_camera is called again
CtrlSend ==
    /\ ctrl.pc = "send"
    /\ IF CaptureEndpoint = "ok"
       THEN /\ thr' = Delivered(ctrl.target, ctrl.req)
            /\ ctrl' = [ctrl EXCEPT !.pc = "open_init", !.ret = "done", !.sends = @ + 1]
            /\ UNCHANGED io_lock
       ELSE IF CaptureEndpoint = "ConnectionRefusedError"
       THEN /\ ctrl' = [ctrl EXCEPT !.pc = "open_init", !.ret = "done", !.sends = @ + 1]
            /\ UNCHANGED <<thr, io_lock>>
       ELSE /\ ctrl' = CtrlRaised(CaptureEndpoint)
            /\ io_lock' = "free"
            /\ UNCHANGED thr
    /\ UNCHANGED <<sequence_sem, click_queue, nstarted, capture_path, overlay, nclicks,
                   ndrains, cfg_vars, Margins, photostrip, clock, main, env, rx_vars, prev, control_buf, files>>

ControlStep ==
    \/ CtrlRecv
    \/ CtrlLock
    \/ CtrlMockSend
    \/ CtrlCapture
    \/ CtrlCaptureError
    \/ CtrlOpenInit
    \/ CtrlOpenInitError
    \/ CtrlOpenConfig
    \/ CtrlDeviceError
    \/ CtrlDownload
    \/ CtrlSave
    \/ CtrlSend


(* ------------------ camera process: the preview worker ----------------- *)

Variants == {"PBCamera", "HTTPPBCamera", "DomainStreamPBCamera", "DomainDGramPBCamera"}

\* the preview worker before _preview_thread_action has run
PrevIdle == [pc |-> "start", failcount |-> 0]

\* _preview_thread_action begins: PBCamera's returns at once, the HTTP server
\* and the stream socket wait for a client, the datagram loop starts
PrevStart ==
    /\ prev.pc = "start"
    /\ prev' = [prev EXCEPT !.pc =
                   CASE variant = "PBCamera" -> "ended"
                     [] variant = "HTTPPBCamera" -> "serve"
                     [] variant = "DomainStreamPBCamera" -> "accept"
                     [] OTHER -> "loop"]
    /\ UNCHANGED <<gui_vars, cfg_vars, Margins, photostrip, clock, main, env, rx_vars, cam_vars>>

\* a client arrives: do_GET is called, or preview_socket.accept() returns
PrevClient ==
    /\ prev.pc \in {"serve", "accept"}
    /\ prev' = [prev EXCEPT !.pc = "loop"]
    /\ UNCHANGED <<gui_vars, cfg_vars, Margins, photostrip, clock, main, env, rx_vars, cam_vars>>

\* "with self.io_lock" of _capture_preview, or of the stream variant's own loop
\* (which calls the device whether mock is set or not)
PrevLock ==
    /\ prev.pc = "loop"
    /\ io_lock_free
    /\ io_lock' = "preview"
    /\ prev' = [prev EXCEPT !.pc = IF mock /\ variant # "DomainStreamPBCamera"
                                   THEN "mock_read" ELSE "preview"]
    /\ UNCHANGED <<gui_vars, cfg_vars, Margins, photostrip, clock, main, env, rx_vars, control_buf, ctrl, files>>

\* mock mode: the fixed preview file is read, the lock is left
PrevMockRead ==
    /\ prev.pc = "mock_read"
    /\ io_lock' = "free"
    /\ prev' = [prev EXCEPT !.pc = "send"]
    /\ UNCHANGED <<gui_vars, cfg_vars, Margins, photostrip, clock, main, env, rx_vars, control_buf, ctrl, files>>

\* gp_camera_capture_preview succeeds
PrevCapture ==
    /\ prev.pc = "preview"
    /\ prev' = [prev EXCEPT !.pc = "get_data"]
    /\ UNCHANGED <<gui_vars, cfg_vars, Margins, photostrip, clock, main, env, rx_vars, cam_vars>>

\* gp_camera_capture_preview raises GPhoto2Error: _capture_preview sleeps and
\* tries again; the stream variant catches nothing and its worker ends; the
\* HTTP server reports the handler's exception and waits for the next request
PrevCaptureError ==
    /\ prev.pc = "preview"
    /\ IF variant = "DomainStreamPBCamera"
       THEN /\ prev' = [prev EXCEPT !.pc = "dead"]
            /\ io_lock' = "free"
       ELSE UNCHANGED <<prev, io_lock>>
    /\ UNCHANGED <<gui_vars, cfg_vars, Margins, photostrip, clock, main, env, rx_vars, control_buf, ctrl, files>>

\* gp_file_get_data_and_size succeeds: the lock is left with the frame
PrevGetData ==
    /\ prev.pc = "get_data"
    /\ io_lock' = "free"
    /\ prev' = [prev EXCEPT !.pc = "send"]
    /\ UNCHANGED <<gui_vars, cfg_vars, Margins, photostrip, clock, main, env, rx_vars, control_buf, ctrl, files>>

\* gp_file_get_data_and_size raises GPhoto2Error, which no variant catches
PrevGetDataError ==
    /\ prev.pc = "get_data"
    /\ io_lock' = "free"
    /\ prev' = [prev EXCEPT !.pc = IF variant = "HTTPPBCamera" THEN "serve" ELSE "dead"]
    /\ UNCHANGED <<gui_vars, cfg_vars, Margins, photostrip, clock, main, env, rx_vars, control_buf, ctrl, files>>

\* the frame is written: wfile.write, sendall or sendto succeeds, or sendto
\* raises ConnectionRefusedError, which the datagram loop passes over
PrevSend ==
    /\ prev.pc = "send"
    /\ prev' = [prev EXCEPT !.pc = "loop"]
    /\ UNCHANGED <<gui_vars, cfg_vars, Margins, photostrip, clock, main, env, rx_vars, cam_vars>>

\* the client is gone: ConnectionResetError ends do_GET, BrokenPipeError sends
\* the stream variant back to accept()
PrevClientGone ==
    /\ prev.pc = "send"
    /\ variant \in {"HTTPPBCamera", "DomainStreamPBCamera"}
    /\ prev' = [prev EXCEPT !.pc = IF variant = "HTTPPBCamera" THEN "serve" ELSE "accept"]
    /\ UNCHANGED <<gui_vars, cfg_vars, Margins, photostrip, clock, main, env, rx_vars, cam_vars>>

\* sendto raises FileNotFoundError: the third one calls sys.exit(1), which
\* raises SystemExit in the preview worker's thread
PrevSendNotFound ==
    /\ prev.pc = "send"
    /\ variant = "DomainDGramPBCamera"
    /\ prev' = IF prev.failcount = 2
               THEN [prev EXCEPT !.pc = "exited"]
               ELSE [prev EXCEPT !.failcount = @ + 1, !.pc = "loop"]
    /\ UNCHANGED <<gui_vars, cfg_vars, Margins, photostrip, clock, main, env, rx_vars, cam_vars>>

PreviewStep ==
    \/ PrevStart
    \/ PrevClient
    \/ PrevLock
    \/ PrevMockRead
    \/ PrevCapture
    \/ PrevCaptureError
    \/ PrevGetData
    \/ PrevGetDataError
    \/ PrevSend
    \/ PrevClientGone
    \/ PrevSendNotFound

(* -------------------- camera process: the main thread ------------------ *)

\* exec_server has made the camera object and calls open(); failures (history)
\* counts the init() calls that raised, err names what has escaped open()
MainStart == [pc |-> "open", failures |-> 0, err |-> ""]
\* open() has returned and run() has started the two workers
MainRunning == [MainStart EXCEPT !.pc = "run"]

\* the "except gp.GPhoto2Error" of the init loop takes the error
init_error_escapes == FALSE
init_error_caught == TRUE

\* open(): unlink and bind "control.sock", enter _open_camera, which does
\* nothing in mock mode
MainOpenBind ==
    /\ main.pc = "open"
    /\ main' = [main EXCEPT !.pc = IF mock THEN "run" ELSE "open_init"]
    /\ UNCHANGED <<gui_vars, cfg_vars, Margins, photostrip, clock, cam_vars, prev, env, rx_vars>>

\* gp.Camera().init() succeeds
MainOpenInit ==
    /\ main.pc = "open_init"
    /\ main' = [main EXCEPT !.pc = "open_config"]
    /\ UNCHANGED <<gui_vars, cfg_vars, Margins, photostrip, clock, cam_vars, prev, env, rx_vars>>

\* init() raises GPhoto2Error: print, sleep 1 s, try again
MainOpenInitError ==
    /\ main.pc = "open_init"
    /\ main.failures < MaxInitFailures
    /\ main' = IF init_error_caught
               THEN [main EXCEPT !.failures = @ + 1]
               ELSE [main EXCEPT !.pc = "raised", !.err = "init"]
    /\ UNCHANGED <<gui_vars, cfg_vars, Margins, photostrip, clock, cam_vars, prev, env, rx_vars>>

\* get_config() and the reads of the widgets succeed; open() returns and
\* run() starts the workers
MainOpenConfig ==
    /\ main.pc = "open_config"
    /\ main' = [main EXCEPT !.pc = "run"]
    /\ UNCHANGED <<gui_vars, cfg_vars, Margins, photostrip, clock, cam_vars, prev, env, rx_vars>>

\* get_config() raises GPhoto2Error, which nothing in open() catches
MainOpenConfigError ==
    /\ main.pc = "open_config"
    /\ main' = [main EXCEPT !.pc = "raised", !.err = "get_config"]
    /\ UNCHANGED <<gui_vars, cfg_vars, Margins, photostrip, clock, cam_vars, prev, env, rx_vars>>

MainStep ==
    \/ MainOpenBind
    \/ MainOpenInit
    \/ MainOpenInitError
    \/ MainOpenConfig
    \/ MainOpenConfigError

\* nothing has been sent from outside
EnvIdle == [datagrams |-> 0, frames |-> <<>>, preview_ep |-> "absent"]

\* a datagram from any sender arrives on "control.sock"
EnvControl(data) ==
    /\ Len(control_buf) < MaxControlQueue
    /\ env.datagrams < MaxDatagrams
    /\ env' = [env EXCEPT !.datagrams = @ + 1]
    /\ control_buf' = Append(control_buf, [data |-> data, req |-> NoReq])
    /\ UNCHANGED <<gui_vars, cfg_vars, Margins, photostrip, clock, main, rx_vars, prev, ctrl, io_lock, files>>

(* ------------------- front-end: ImageReceiverStream ------------------- *)

\* the values a byte takes in the checked runs
Bytes == {0, 1}
\* the payloads of the frames written to the stream
Payloads == UNION {[1..n -> Bytes] : n \in 0..MaxFrameLen}

\* run() is entered: nothing is connected; emitted, pos and retried are
\* history: the frames given to img_received, the number of bytes read from
\* the stream, and whether a connect has failed
RxIdle == [pc |-> "connect", preview_len |-> 0, emitted |-> <<>>, pos |-> 0,
           retried |-> FALSE]
\* a stream connection on which nothing was written
NoStream == [flight |-> <<>>, buf |-> <<>>, closed |-> FALSE]

\* int.from_bytes(b, "big") of four bytes
from_bytes(b) == ((b[1] * 256 + b[2]) * 256 + b[3]) * 256 + b[4]
\* the four bytes of a length, most significant first
to_bytes(n) == <<(n \div 16777216) % 256, (n \div 65536) % 256, (n \div 256) % 256, n % 256>>

\* sock.recv(n) returns: at once for n = 0, else when bytes have arrived or
\* the peer has closed and nothing more is on the way
recv_ready(n) ==
    \/ n = 0
    \/ preview_stream.buf # <<>>
    \/ preview_stream.closed /\ preview_stream.flight = <<>>
\* what sock.recv(n) returns: the bytes that have arrived, at most n of them
recv(n) == SubSeq(preview_stream.buf, 1, Min(n, Len(preview_stream.buf)))
\* what is left in the socket after it
after_recv(n) ==
    [preview_stream EXCEPT
        !.buf = SubSeq(@, Min(n, Len(@)) + 1, Len(@))]

\* the "except (FileNotFoundError, ConnectionRefusedError)" takes the error
connect_error_escapes == FALSE
connect_error_caught == TRUE

\* sock.connect succeeds
RxConnect ==
    /\ receiver.pc = "connect"
    /\ env.preview_ep = "listening"
    /\ receiver' = [receiver EXCEPT !.pc = "len"]
    /\ preview_stream' = NoStream
    /\ UNCHANGED <<gui_vars, cfg_vars, Margins, photostrip, clock, cam_vars, prev, main, env>>

\* sock.connect raises FileNotFoundError or ConnectionRefusedError: sleep 2 s
\* and try again
RxConnectError ==
    /\ receiver.pc = "connect"
    /\ env.preview_ep \in {"absent", "refusing"}
    /\ receiver' = IF connect_error_caught
                   THEN [receiver EXCEPT !.retried = TRUE]
                   ELSE [receiver EXCEPT !.pc = "raised"]
    /\ UNCHANGED <<gui_vars, cfg_vars, Margins, photostrip, clock, cam_vars, prev, main, env, preview_stream>>

\* "continue" after a read of other than four bytes: the inner loop goes on
\* with the next sock.recv(4)
continue_reconnecting(r, b) ==
    IF b = <<>> THEN [r EXCEPT !.pc = "connect"] ELSE [r EXCEPT !.pos = @ + Len(b)]
continue_reading(r, b) == [r EXCEPT !.pos = @ + Len(b)]

\* preview_len_b = sock.recv(4): anything but four bytes is passed over
RxRecvLen ==
    /\ receiver.pc = "len"
    /\ recv_ready(4)
    /\ LET preview_len_b == recv(4) IN
       receiver' = IF Len(preview_len_b) # 4 \/ Len(preview_len_b) > 10000000
                   THEN continue_reading(receiver, preview_len_b)
                   ELSE [receiver EXCEPT !.pos = @ + 4, !.pc = "data",
                                         !.preview_len = from_bytes(preview_len_b)]
    /\ preview_stream' = after_recv(4)
    /\ UNCHANGED <<gui_vars, cfg_vars, Margins, photostrip, clock, cam_vars, prev, main, env>>

\* preview_data = sock.recv(preview_len): emitted if it has preview_len
\* bytes, passed over if not
RxRecvData ==
    /\ receiver.pc = "data"
    /\ recv_ready(receiver.preview_len)
    /\ LET preview_data == recv(receiver.preview_len) IN
       receiver' = IF Len(preview_data) # receiver.preview_len
                   THEN [receiver EXCEPT !.pos = @ + Len(preview_data), !.pc = "len",
                                         !.preview_len = 0]
                   ELSE [receiver EXCEPT !.pos = @ + Len(preview_data), !.pc = "len",
                                         !.preview_len = 0,
                                         !.emitted = Append(@, preview_data)]
    /\ preview_stream' = after_recv(receiver.preview_len)
    /\ UNCHANGED <<gui_vars, cfg_vars, Margins, photostrip, clock, cam_vars, prev, main, env>>

ReceiverStep ==
    \/ RxConnect
    \/ RxConnectError
    \/ RxRecvLen
    \/ RxRecvData

\* the peer writes one frame: its length in four bytes, then its bytes
EnvWriteFrame(payload) ==
    /\ receiver.pc \in {"len", "data"}
    /\ ~preview_stream.closed
    /\ Len(env.frames) < MaxFrames
    /\ preview_stream' = [preview_stream EXCEPT
                             !.flight = @ \o to_bytes(Len(payload)) \o payload]
    /\ env' = [env EXCEPT !.frames = Append(@, payload)]
    /\ UNCHANGED <<gui_vars, cfg_vars, Margins, photostrip, clock, cam_vars, prev, main, receiver>>

\* the next k bytes on the way reach the receiver's socket
StreamArrive(k) ==
    /\ k \in 1..Len(preview_stream.flight)
    /\ preview_stream' = [preview_stream EXCEPT
                             !.flight = SubSeq(@, k + 1, Len(@)),
                             !.buf = @ \o SubSeq(preview_stream.flight, 1, k)]
    /\ UNCHANGED <<gui_vars, cfg_vars, Margins, photostrip, clock, cam_vars, prev, main, receiver, env>>

\* the peer closes the connection
EnvClose ==
    /\ receiver.pc \in {"len", "data"}
    /\ ~preview_stream.closed
    /\ preview_stream' = [preview_stream EXCEPT !.closed = TRUE]
    /\ UNCHANGED <<gui_vars, cfg_vars, Margins, photostrip, clock, cam_vars, prev, main, receiver, env>>

\* "preview.sock" is made, listened on, left behind or removed
EnvPreviewEndpoint(st) ==
    /\ st # env.preview_ep
    /\ env' = [env EXCEPT !.preview_ep = st]
    /\ UNCHANGED <<gui_vars, cfg_vars, Margins, photostrip, clock, cam_vars, prev, main, rx_vars>>

(* --------------------------- specification ----------------------------- *)

\* the window is shown and the camera process has opened and runs
Init ==
    /\ sequence_sem = 1
    /\ click_queue = <<>>
    /\ thr = [t \in Threads |-> NewThread]
    /\ nstarted = 0
    /\ capture_path = 0
    /\ overlay = [text |-> Blank, topleft |-> Blank]
    /\ nclicks = 0
    /\ ndrains = 0
    /\ bg_mode \in {"SingleVertical", "DoubleVertical"}
    /\ do_print \in BOOLEAN
    /\ mock \in BOOLEAN
    /\ control_buf = <<>>
    /\ ctrl = CtrlIdle
    /\ io_lock = "free"
    /\ files = {}
    /\ variant = "DomainDGramPBCamera"
    /\ prev = PrevIdle
    /\ main = MainRunning
    /\ receiver = RxIdle
    /\ preview_stream = NoStream
    /\ env = EnvIdle
    /\ Margins = <<0, 0, 0, 0>>
    /\ photostrip = NewPhotostrip(0)
    /\ DelayBetweenShots = 3
    /\ clock = 0

Next ==
    \/ \E p \in PlainClicks : Click(p[1], p[2], MaxClicks)
    \/ \E t \in Threads : SequenceStep(t)
    \/ ControlStep

Spec == Init /\ [][Next]_vars

\* the same program run with --mock, the camera process answering every
\* request within the 10 s wait: the clicks against one sequence at a time
InitPermit ==
    /\ Init
    /\ mock = TRUE

NextPermit ==
    \/ \E p \in PlainClicks : Click(p[1], p[2], MaxPermitClicks)
    \/ \E t \in Threads : SequenceStepInTime(t)
    \/ CtrlRecv
    \/ CtrlLock
    \/ CtrlMockSend

SpecPermit == InitPermit /\ [][NextPermit]_vars

\* the same program run with --mock, the camera process answering every
\* request within the 10 s wait: clicks at every kind of position
NextSelect ==
    \/ \E p \in SelectClicks : QueuedClick(p[1], p[2])
    \/ \E t \in Threads : SequenceStepInTime(t)
    \/ CtrlRecv
    \/ CtrlLock
    \/ CtrlMockSend

SpecSelect == InitPermit /\ [][NextSelect]_vars

\* the front-end as the camera process may find it: no sequence was ever
\* started ("capture.sock" does not exist), a sequence waits for the result of
\* its first shot, or the last sequence has ended by an exception and has left
\* the file "capture.sock" behind with no socket bound to it
FrontEnds == {"idle", "waiting", "crashed"}

\* the requests of one sequence none of which was served
Unserved(t) == [k \in 1..PhotosPerStrip |-> [data |-> "cmd", req |-> <<t, k - 1>>]]

\* the camera process alone, whichever PBCamera class it runs: open() has
\* returned, run() starts the two workers, datagrams arrive on "control.sock"
InitCam ==
    /\ click_queue = <<>>
    /\ ndrains = 0
    /\ bg_mode = "DoubleVertical"
    /\ do_print = FALSE
    /\ mock \in BOOLEAN
    /\ ctrl = CtrlIdle
    /\ io_lock = "free"
    /\ files = {}
    /\ variant \in Variants
    /\ prev = PrevIdle
    /\ main = MainRunning
    /\ receiver = RxIdle
    /\ preview_stream = NoStream
    /\ env = EnvIdle
    /\ Margins = <<0, 0, 0, 0>>
    /\ photostrip = NewPhotostrip(0)
    /\ DelayBetweenShots = 3
    /\ clock = 0
    /\ \E fe \in FrontEnds :
          /\ sequence_sem = IF fe = "idle" THEN 1 ELSE 0
          /\ nstarted = IF fe = "idle" THEN 0 ELSE 1
          /\ nclicks = nstarted
          /\ capture_path = nstarted
          /\ thr = [t \in Threads |->
                      IF t > 1 \/ fe = "idle" THEN NewThread
                      ELSE IF fe = "waiting"
                      THEN [NewThread EXCEPT !.pc = "recv", !.timer = "running"]
                      ELSE EndedThread("crashed", "IndexError")]
          /\ overlay = CASE fe = "idle" -> [text |-> Blank, topleft |-> Blank]
                         [] fe = "waiting" -> [text |-> Blank, topleft |-> ShotLabel(0)]
                         [] OTHER -> [text |-> Blank, topleft |-> Txt("Processing...", 0, 0)]
          /\ control_buf = CASE fe = "idle" -> <<>>
                             [] fe = "waiting" -> SubSeq(Unserved(1), 1, 1)
                             [] OTHER -> Unserved(1)

NextCam ==
    \/ \E data \in {"", "cmd"} : EnvControl(data)
    \/ ControlStep
    \/ PreviewStep

SpecCam == InitCam /\ [][NextCam]_vars

\* the camera process from the start of exec_server: datagrams can be sent
\* once "control.sock" is bound, the workers run once run() has started them
InitOpen ==
    /\ sequence_sem = 1
    /\ click_queue = <<>>
    /\ thr = [t \in Threads |-> NewThread]
    /\ nstarted = 0
    /\ capture_path = 0
    /\ overlay = [text |-> Blank, topleft |-> Blank]
    /\ nclicks = 0
    /\ ndrains = 0
    /\ bg_mode = "DoubleVertical"
    /\ do_print = FALSE
    /\ mock \in BOOLEAN
    /\ control_buf = <<>>
    /\ ctrl = CtrlIdle
    /\ io_lock = "free"
    /\ files = {}
    /\ variant \in Variants
    /\ prev = PrevIdle
    /\ main = MainStart
    /\ receiver = RxIdle
    /\ preview_stream = NoStream
    /\ env = EnvIdle
    /\ Margins = <<0, 0, 0, 0>>
    /\ photostrip = NewPhotostrip(0)
    /\ DelayBetweenShots = 3
    /\ clock = 0

NextOpen ==
    \/ MainStep
    \/ main.pc # "open" /\ \E data \in {"", "cmd"} : EnvControl(data)
    \/ main.pc = "run" /\ ControlStep
    \/ main.pc = "run" /\ PreviewStep

SpecOpen == InitOpen /\ [][NextOpen]_vars

\* the main thread goes on, and the device answers init() in the end
SpecOpenFair ==
    /\ SpecOpen
    /\ WF_vars(MainOpenBind)
    /\ WF_vars(MainOpenInit)
    /\ WF_vars(MainOpenConfig \/ MainOpenConfigError)

\* the stream receiver alone with its peer: the endpoint comes and goes,
\* frames are written, their bytes arrive in pieces of any size
InitStream ==
    /\ Init
    /\ mock = TRUE
    /\ bg_mode = "DoubleVertical"
    /\ do_print = FALSE

NextStream ==
    \/ ReceiverStep
    \/ \E payload \in Payloads : EnvWriteFrame(payload)
    \/ \E k \in 1..(4 + MaxFrameLen) : StreamArrive(k)
    \/ EnvClose
    \/ \E st \in {"absent", "refusing", "listening"} : EnvPreviewEndpoint(st)

SpecStream == InitStream /\ [][NextStream]_vars

\* the payloads written where the connecting is what is checked
ConnectPayloads == {<<>>, <<1>>}

NextConnect ==
    \/ ReceiverStep
    \/ \E payload \in ConnectPayloads : EnvWriteFrame(payload)
    \/ \E k \in 1..(4 + MaxFrameLen) : StreamArrive(k)
    \/ EnvClose
    \/ \E st \in {"absent", "refusing", "listening"} : EnvPreviewEndpoint(st)

\* the receiver goes on trying to connect
SpecConnectFair == InitStream /\ [][NextConnect]_vars /\ WF_vars(RxConnect)

\* the same run with one click position of each kind (changing the count,
\* confirming, outside the row) and the worker scheduled: a pass of the
\* selection loop that can be made is made, click_queue.get returning within
\* its 0.1 s
NextSelectLoop ==
    \/ \E p \in LoopClicks : QueuedClick(p[1], p[2])
    \/ \E t \in Threads : SequenceStepInTime(t)
    \/ CtrlRecv
    \/ CtrlLock
    \/ CtrlMockSend

SpecSelectFair ==
    /\ InitPermit
    /\ [][NextSelectLoop]_vars
    /\ \A t \in Threads : WF_vars(SeqSelectEmpty(t) \/ SeqSelectClick(t))

\* the same run with clicks outside the row of the selection
NextSelectRow ==
    \/ \E p \in RowClicks : QueuedClick(p[1], p[2])
    \/ \E t \in Threads : SequenceStepInTime(t)
    \/ CtrlRecv
    \/ CtrlLock
    \/ CtrlMockSend

SpecSelectRow == InitPermit /\ [][NextSelectRow]_vars

\* the same program run with --do_print
InitDoPrint ==
    /\ Init
    /\ do_print = TRUE

SpecDoPrint == InitDoPrint /\ [][Next]_vars

\* a run of two clicks, the one that starts a sequence and one more, the
\* camera process answering in time, late or never
NextSequence ==
    \/ \E p \in PlainClicks : Click(p[1], p[2], 2)
    \/ \E t \in Threads : SequenceStep(t)
    \/ ControlStep

SpecSequence == Init /\ [][NextSequence]_vars

\* the capture loop of one sequence with the time since each request counted
\* in seconds, under every delay between shots up to MaxDelay; the camera
\* process takes any time to answer
InitTimed ==
    /\ sequence_sem = 1
    /\ click_queue = <<>>
    /\ thr = [t \in Threads |-> NewThread]
    /\ nstarted = 0
    /\ capture_path = 0
    /\ overlay = [text |-> Blank, topleft |-> Blank]
    /\ nclicks = 0
    /\ ndrains = 0
    /\ bg_mode = "DoubleVertical"
    /\ do_print = FALSE
    /\ mock \in BOOLEAN
    /\ control_buf = <<>>
    /\ ctrl = CtrlIdle
    /\ io_lock = "free"
    /\ files = {}
    /\ variant = "DomainDGramPBCamera"
    /\ prev = PrevIdle
    /\ main = MainRunning
    /\ receiver = RxIdle
    /\ preview_stream = NoStream
    /\ env = EnvIdle
    /\ Margins = <<0, 0, 0, 0>>
    /\ photostrip = NewPhotostrip(0)
    /\ DelayBetweenShots \in 0..MaxDelay
    /\ clock = 0

NextTimed ==
    \/ \E p \in PlainClicks : Click(p[1], p[2], 1)
    \/ \E t \in Threads : TimedSequenceStep(t)
    \/ ControlStep
    \/ Tick

SpecTimed == InitTimed /\ [][NextTimed]_vars

\* Photostrip alone: an object made for k photos under every background mode
\* and every page margin up to MaxMargin, and the calls a caller makes on it
InitPhotostrip ==
    /\ sequence_sem = 1
    /\ click_queue = <<>>
    /\ thr = [t \in Threads |-> NewThread]
    /\ nstarted = 0
    /\ capture_path = 0
    /\ overlay = [text |-> Blank, topleft |-> Blank]
    /\ nclicks = 0
    /\ ndrains = 0
    /\ bg_mode \in {"SingleVertical", "DoubleVertical"}
    /\ do_print = FALSE
    /\ mock = TRUE
    /\ control_buf = <<>>
    /\ ctrl = CtrlIdle
    /\ io_lock = "free"
    /\ files = {}
    /\ variant = "DomainDGramPBCamera"
    /\ prev = PrevIdle
    /\ main = MainRunning
    /\ receiver = RxIdle
    /\ preview_stream = NoStream
    /\ env = EnvIdle
    /\ Margins \in [1..4 -> 0..MaxMargin]
    /\ photostrip \in {NewPhotostrip(k) : k \in 0..PhotosPerStrip}
    /\ DelayBetweenShots = 3
    /\ clock = 0

NextPhotostrip ==
    \/ StripComposite
    \/ StripMakePrintable

SpecPhotostrip == InitPhotostrip /\ [][NextPhotostrip]_vars

(* ------------------------------- claims -------------------------------- *)

\* the worker is inside a call of the device (gphoto2)
CtrlInDevice == ctrl.pc \in {"capture", "open_init", "open_config", "download", "save"}
PrevInDevice == prev.pc \in {"preview", "get_data"}

\* C6: a still capture (its retries, the re-initialisations and the download
\* included) and a preview capture never run against the device at the same
\* time, whichever preview transport the camera process uses.
C6_DeviceExclusive ==
    /\ ~(CtrlInDevice /\ PrevInDevice)
    /\ CtrlInDevice => io_lock = "control"
    /\ PrevInDevice => io_lock = "preview"

\* the preview worker waits at the lock while a still capture retries
C6_Witness ==
    /\ ctrl.pc = "open_init"
    /\ ctrl.ret = "capture"
    /\ prev.pc = "loop"
    /\ variant = "DomainStreamPBCamera"

NumActive == Cardinality(Active)

\* C1: at most one sequence worker is active at any time; a click that finds
\* the permit held starts no sequence and is put on the click queue; a click
\* that finds the permit free takes it, starts exactly one sequence and is not
\* put on the queue.
C1_OneSequence ==
    [][ /\ NumActive' <= 1
        /\ nclicks' = nclicks + 1 =>
              IF sequence_sem > 0
              THEN /\ sequence_sem' = 0
                   /\ NumActive' = NumActive + 1
                   /\ nstarted' = nstarted + 1
                   /\ click_queue' = click_queue
              ELSE /\ Len(click_queue') = Len(click_queue) + 1
                   /\ NumActive' = NumActive
                   /\ nstarted' = nstarted
                   /\ sequence_sem' = sequence_sem ]_vars

\* a click was queued behind a running sequence and a later click started the
\* second sequence
C1_Witness ==
    /\ nstarted = 2
    /\ NumActive = 1
    /\ click_queue # <<>>

\* C8: every click queued before PrintSelect begins is discarded by the drain:
\* while the selection loop runs, the queue holds only clicks that were put
\* there after this sequence's drain began.
C8_StaleClicksDiscarded ==
    \A t \in Threads :
        thr[t].pc = "select" =>
            \A k \in 1..Len(click_queue) : click_queue[k].born = ndrains

\* the second sequence has dropped a click left over from the first one and
\* has a fresh click to read
C8_Witness ==
    /\ nstarted = 2
    /\ thr[2].pc = "select"
    /\ thr[2].dropped

\* C2: every sequence that is started gives the permit back: whenever no
\* sequence worker is running, the single-sequence permit is free again, so a
\* click can start a new sequence.
C2_PermitReturned ==
    Active = {} => sequence_sem = 1

\* C3: capture timeouts are not fatal: the sequence reaches composite() with
\* one path per shot that did not time out, and (the background mode being
\* one composite() handles) composite() ends without an exception whichever
\* shots timed out.
C3_TimeoutsNotFatal ==
    \A t \in Threads :
        /\ thr[t].pc = "composite" =>
               Len(thr[t].image_files) = PhotosPerStrip - thr[t].ntimeouts
        /\ bg_mode = "DoubleVertical" => thr[t].pc # "crashed"

\* C4: what slot i records is the result of shot i's own request: a result
\* is never recorded for a later shot or a later sequence.
C4_ResultOfOwnRequest ==
    \A t \in Threads : \A k \in 1..Len(thr[t].slots) :
        thr[t].slots[k].req = <<t, thr[t].slots[k].slot>>

\* capture requests sent and not yet served to the end by the camera process
InFlight == Len(control_buf) + (IF ctrl.pc \in {"recv", "dead"} THEN 0 ELSE 1)

\* C5: at most one capture request is in flight at any time.
C5_AtMostOneInFlight == InFlight <= 1

Distinct(seq) == \A j, k \in 1..Len(seq) : j # k => seq[j] # seq[k]

\* the requests were served in the order they were sent: <<thread, shot>> grows
InRequestOrder(slots) ==
    \A j, k \in 1..Len(slots) :
        j < k => \/ slots[j].req[1] < slots[k].req[1]
                 \/ /\ slots[j].req[1] = slots[k].req[1]
                    /\ slots[j].req[2] < slots[k].req[2]

\* C7 (as claimed): the list of captured paths has at most PhotosPerStrip
\* entries, in the order of the requests, pairwise distinct, in real and in
\* mock mode.
C7_DistinctPaths ==
    \A t \in Threads :
        /\ Len(thr[t].image_files) <= PhotosPerStrip
        /\ InRequestOrder(thr[t].slots)
        /\ Distinct(thr[t].image_files)

\* C7 (amended): at most PhotosPerStrip entries in the order of the requests;
\* pairwise distinct in real mode; in mock mode every entry is the one fixed
\* path "mock_image.jpg".
C7_DistinctPathsReal ==
    \A t \in Threads :
        /\ Len(thr[t].image_files) <= PhotosPerStrip
        /\ InRequestOrder(thr[t].slots)
        /\ ~mock => Distinct(thr[t].image_files)
        /\ mock => \A k \in 1..Len(thr[t].image_files) : thr[t].image_files[k] = MockImage

\* a full list of distinct paths of the real camera reaches the compositor
C7_Witness ==
    \E t \in Threads :
        /\ ~mock
        /\ thr[t].pc = "composite"
        /\ Len(thr[t].image_files) = PhotosPerStrip
        /\ PhotosPerStrip >= 2

\* the selection loop of t has read a click in the row 0.3 < y < 0.7
ReadInRow(t) == thr[t].last # NoClick /\ 30 < thr[t].last.y /\ thr[t].last.y < 70

Selecting(t) == thr[t].pc \in {"select", "print", "lpr", "dwell"}

\* C9 (as claimed): the copy count starts at 2, stays within 0..6, and is 2
\* more after every click at x > 0.55 and 2 less after every click at x < 0.45
\* of the row 0.3 < y < 0.7.
C9_ExactStep ==
    \A t \in Threads :
        Selecting(t) =>
            /\ thr[t].ncopies \in 0..6
            /\ thr[t].last = NoClick => thr[t].ncopies = 2
            /\ (ReadInRow(t) /\ thr[t].last.x > 55) =>
                   thr[t].ncopies = thr[t].last.before + 2
            /\ (ReadInRow(t) /\ thr[t].last.x < 45) =>
                   thr[t].ncopies = thr[t].last.before - 2

\* C9 (amended): the copy count starts at 2 and stays within 0..6; a click at
\* x > 0.55 of the row adds 2 unless the count is 6 already, where it stays 6;
\* a click at x < 0.45 takes 2 away unless the count is 0, where it stays 0.
C9_SaturatingStep ==
    \A t \in Threads :
        Selecting(t) =>
            /\ thr[t].ncopies \in 0..6
            /\ thr[t].last = NoClick => thr[t].ncopies = 2
            /\ (ReadInRow(t) /\ thr[t].last.x > 55) =>
                   thr[t].ncopies = IF thr[t].last.before = 6 THEN 6
                                    ELSE thr[t].last.before + 2
            /\ (ReadInRow(t) /\ thr[t].last.x < 45) =>
                   thr[t].ncopies = IF thr[t].last.before = 0 THEN 0
                                    ELSE thr[t].last.before - 2

\* an increment click was read at 6 copies
C9_Witness ==
    \E t \in Threads :
        /\ Selecting(t)
        /\ ReadInRow(t)
        /\ thr[t].last.x > 55
        /\ thr[t].last.before = 6

\* C10: a click of the row with 0.45 <= x <= 0.55 ends the selection loop at
\* once: the loop is left, the copy count is what it was and no further click
\* is read.
C10_CentralBandConfirms ==
    \A t \in Threads :
        (Selecting(t) /\ ReadInRow(t) /\ 45 <= thr[t].last.x /\ thr[t].last.x <= 55) =>
            /\ thr[t].pc \in {"print", "lpr", "dwell"}
            /\ thr[t].ncopies = thr[t].last.before

\* C11: a sequence that reaches the 5 s dwell has run the print command
\* copies / 2 times when printing is enabled and copies > 0, and not at all
\* when printing is disabled or copies = 0; the permit is released, and run()
\* ends normally, only out of the dwell.
C11_PrintRuns ==
    [][\A t \in Threads :
          /\ thr'[t].pc = "dwell" =>
                thr'[t].nprints = IF do_print /\ thr'[t].ncopies > 0
                                  THEN thr'[t].ncopies \div 2 ELSE 0
          /\ (thr'[t].pc = "done" /\ thr[t].pc # "done") =>
                (thr[t].pc = "dwell" /\ sequence_sem' = sequence_sem + 1)
          /\ sequence_sem' # sequence_sem /\ thr[t].pc = "dwell" => thr'[t].pc = "done"]_vars

\* three print commands were run for 6 copies
C11_Witness ==
    \E t \in Threads :
        /\ thr[t].pc = "dwell"
        /\ do_print
        /\ thr[t].ncopies = 6
        /\ thr[t].nprints = 3

\* C12: a non-empty datagram taken from the control endpoint starts one call
\* of _capture_image and an empty one starts none; when the worker is back in
\* its receive loop the datagram has had one capture (real mode) and one
\* sendto of the result (in mock mode the send is the step that returns); the
\* camera process puts nothing on the control endpoint; and the worker goes on
\* serving, so that k non-empty datagrams give k captures and k results.
C12_OneCapturePerDatagram ==
    /\ [](ctrl.pc # "dead")
    /\ [][/\ (ctrl.pc = "recv" /\ control_buf # <<>> /\ control_buf' = Tail(control_buf)) =>
                IF Head(control_buf).data # "" THEN ctrl'.pc = "lock" ELSE ctrl' = ctrl
          /\ (ctrl.pc # "recv" /\ ctrl'.pc = "recv") =>
                IF ctrl.pc = "mock_send"
                THEN ctrl.sends = 0 /\ thr' # thr
                ELSE ctrl.sends = 1 /\ ctrl.shots = 1
          /\ Len(control_buf') > Len(control_buf) => ctrl' = ctrl]_vars

\* C13: when "capture.sock" is missing or refuses as the result is sent, in
\* real or in mock mode, the send is tried once, nothing is delivered, no
\* exception ends the control worker, and the worker is back in its receive
\* loop only with the device lock released.
C13_SendFailsSilently ==
    /\ [](ctrl.pc \in {"recv", "dead"} => io_lock # "control")
    /\ [][(ctrl.pc \in {"send", "mock_send"} /\ CaptureEndpoint # "ok" /\ ctrl' # ctrl) =>
             /\ ctrl'.pc # "dead"
             /\ ctrl'.sends = ctrl.sends + 1
             /\ thr' = thr]_vars

\* C14: no device error ends a worker of the camera process: the control
\* worker is never ended by a GPhoto2Error and the preview worker, whichever
\* transport it serves, is never ended by one either.
C14_DeviceErrorsRetried ==
    /\ ctrl.err # "GPhoto2Error"
    /\ prev.pc # "dead"

C16_ExitStopsProcess ==
    [][prev.pc = "exited" => (ctrl' = ctrl /\ Len(control_buf') >= Len(control_buf))]_vars

\* nothing is on the way and all that arrived was read
StreamQuiet ==
    /\ receiver.pc = "len"
    /\ preview_stream.flight = <<>>
    /\ preview_stream.buf = <<>>

\* C17: every frame written as a 4-byte big-endian length and its bytes is
\* emitted once with the bytes it was written with, however the stream hands
\* the bytes to the reads: what was emitted is always the first frames
\* written, and all of them once every byte has been read.
C17_FramedRoundTrip ==
    /\ Len(receiver.emitted) <= Len(env.frames)
    /\ receiver.emitted = SubSeq(env.frames, 1, Len(receiver.emitted))
    /\ StreamQuiet => receiver.emitted = env.frames

\* the stream offsets at which a written frame begins or the last one ends
RECURSIVE FrameEnd(_)
FrameEnd(k) == IF k = 0 THEN 0 ELSE FrameEnd(k - 1) + 4 + Len(env.frames[k])
Boundaries == {FrameEnd(k) : k \in 0..Len(env.frames)}

\* f is g with some of its entries left out
RECURSIVE IsSubsequence(_, _)
IsSubsequence(f, g) ==
    IF f = <<>> THEN TRUE
    ELSE IF g = <<>> THEN FALSE
    ELSE IF Head(f) = Head(g) THEN IsSubsequence(Tail(f), Tail(g))
    ELSE IsSubsequence(f, Tail(g))

\* C18: a short read of the length or of the payload loses that frame only:
\* the receiver reads every length at the beginning of a frame (it stays
\* aligned on the frame boundaries), and what it emits are frames that were
\* written, in their order, each with its own bytes.
C18_MalformedFrameDiscarded ==
    /\ receiver.pc = "len" => receiver.pos \in Boundaries
    /\ IsSubsequence(receiver.emitted, env.frames)

\* C19: a connect that fails because "preview.sock" is missing or refuses
\* never ends the receiver: it stays in the connect loop or connects; and if
\* the endpoint is there from some time on for good, the receiver connects
\* and goes on to read frames.
C19_ConnectRetriedForever ==
    /\ [][receiver.pc = "connect" => receiver'.pc \in {"connect", "len"}]_vars
    /\ <>[](env.preview_ep = "listening") => <>(receiver.pc \in {"len", "data"})

\* the receiver has connected after a connect that failed
C19_Witness ==
    /\ receiver.retried
    /\ receiver.pc = "len"

\* C20: in SingleVertical mode composite() over k >= 1 photos ends without
\* an exception and has pasted k thumbnails, thumbnail i at
\* (ThumbnailX, ThumbnailY + (thumbnail height + ThumbnailSkipY) * i).
C20_SingleVerticalStack ==
    \A t \in Threads :
        bg_mode = "SingleVertical" =>
            /\ thr[t].err # "AssertionError"
            /\ thr[t].pc = "printable" =>
                   thr[t].pastes =
                       [j \in 1..Len(thr[t].image_files) |->
                           <<j - 1, boothconfig.ThumbnailX,
                             boothconfig.ThumbnailY
                                 + (thumb_h + boothconfig.ThumbnailSkipY) * (j - 1)>>]

\* C21: make_printable() on a Photostrip that has photos returns a page and
\* writes it to the output file, having computed the composite if there was
\* none; for a composite of size (w, h) and margins (t, r, b, l) the page of
\* SingleVertical is two margined composites side by side, each copy with
\* its own margins, and the page of DoubleVertical has the size
\* (w + l + r, h + t + b) and holds the composite once at (l, t)
C21_MakePrintable ==
    (photostrip.called = "make_printable" /\ photostrip.photo_list # <<>>) =>
        LET w == photostrip.composited_im.size[1]
            h == photostrip.composited_im.size[2]
            t == Margins[1]
            r == Margins[2]
            b == Margins[3]
            l == Margins[4]
        IN /\ photostrip.err = ""
           /\ photostrip.composited_im # NoImage
           /\ photostrip.saved
           /\ bg_mode = "SingleVertical" =>
                 photostrip.printable =
                    [size |-> <<2 * (w + l + r), h + t + b>>,
                     pastes |-> << <<l, t>>, <<(w + l + r) + l, t>> >>]
           /\ bg_mode = "DoubleVertical" =>
                 photostrip.printable =
                    [size |-> <<w + l + r, h + t + b>>, pastes |-> << <<l, t>> >>]

\* C26: in DoubleVertical mode composite() pastes each of the k photos twice
\* on one row, in capture order: photo i at (ThumbnailX, ThumbnailY +
\* (thumbnail height + ThumbnailSkipY) * i) and then at (ThumbnailX +
\* ThumbnailSkipX + ThumbnailWidth, the same vertical position)
C26_DoubleVerticalPastes ==
    (bg_mode = "DoubleVertical" /\ photostrip.composited_im # NoImage) =>
        LET k == Len(photostrip.photo_list)
            pastes == photostrip.composited_im.pastes
            row(i) == boothconfig.ThumbnailY
                        + ((boothconfig.ThumbnailWidth * PhotoSize[2]) \div PhotoSize[1]
                           + boothconfig.ThumbnailSkipY) * i
        IN /\ Len(pastes) = 2 * k
           /\ \A i \in 0..(k - 1) :
                 /\ pastes[2 * i + 1] = <<i, boothconfig.ThumbnailX, row(i)>>
                 /\ pastes[2 * i + 2] =
                       <<i, boothconfig.ThumbnailX + boothconfig.ThumbnailSkipX
                              + boothconfig.ThumbnailWidth, row(i)>>

\* a DoubleVertical composite of a full strip has been made
C26_Witness ==
    /\ bg_mode = "DoubleVertical"
    /\ photostrip.called = "composite"
    /\ photostrip.composited_im # NoImage
    /\ Len(photostrip.photo_list) = PhotosPerStrip
    /\ Len(photostrip.composited_im.pastes) = 2 * PhotosPerStrip

\* the order of the phases of run(): every change of a sequence's position is
\* one of these
PhaseOrder ==
    {<<"new", "bind">>, <<"bind", "countdown">>, <<"countdown", "send">>,
     <<"send", "recv">>, <<"recv", "timer">>, <<"timer", "countdown">>,
     <<"timer", "composite">>, <<"composite", "printable">>, <<"composite", "crashed">>,
     <<"printable", "drain">>, <<"drain", "select">>, <<"select", "print">>,
     <<"print", "lpr">>, <<"print", "dwell">>, <<"lpr", "dwell">>, <<"dwell", "done">>}

\* C22: a sequence passes its phases only in the order countdown(0),
\* capture(0), ..., countdown(N-1), capture(N-1), compositing, selection,
\* printing, idle: the shot index starts at 0, stays within a shot and grows
\* by one from shot to shot; the countdown shows CountdownTimer down to 1; a
\* capture request is sent only by the step that follows the countdown of
\* its shot and clears the text, one request per shot; compositing starts
\* only from the end of the wait of shot N-1
C22_PhaseOrder ==
    [][/\ \A t \in Threads :
            LET a == thr[t]
                b == thr'[t]
            IN /\ a.pc # b.pc => <<a.pc, b.pc>> \in PhaseOrder
               /\ (a.pc = b.pc /\ a.pc \in {"countdown", "send", "recv", "timer"}) => b.i = a.i
               /\ (a.pc = "bind" /\ b.pc # "bind") => (b.i = 0 /\ b.c = CountdownTimer)
               /\ (a.pc = "countdown" /\ (b.pc # a.pc \/ b.c # a.c)) =>
                     /\ overlay'.text = Txt("count", a.c, 0)
                     /\ b.c = a.c - 1
                     /\ b.i = a.i
                     /\ b.pc = "send" <=> a.c = 1
               /\ (a.pc = "send" /\ b.pc # "send") =>
                     /\ a.c = 0
                     /\ overlay'.text = Blank
                     /\ b.i = a.i
                     /\ control_buf' = Append(control_buf, [data |-> "cmd", req |-> <<t, a.i>>])
               /\ (a.pc = "recv" /\ b.pc = "timer") => b.i = a.i
               /\ (a.pc = "timer" /\ b.pc = "countdown") =>
                     (a.i + 1 < PhotosPerStrip /\ b.i = a.i + 1 /\ b.c = CountdownTimer)
               /\ (a.pc = "timer" /\ b.pc = "composite") => a.i = PhotosPerStrip - 1
       /\ Len(control_buf') > Len(control_buf) =>
            \E t \in Threads : thr[t].pc = "send" /\ thr'[t].pc = "recv"]_vars

\* a sequence has passed every phase up to the 5 s sleep that ends it, one of
\* its capture waits having timed out
C22_Witness ==
    \E t \in Threads : thr[t].pc = "dwell" /\ thr[t].ntimeouts > 0 /\ thr[t].image_files # <<>>

\* C23: the delay timer starts with the capture request and runs while the
\* result is awaited: the wait ends within 10 s of the request (at 10 s if it
\* timed out), and the sequence leaves the shot, for the next countdown or
\* for compositing, only after the wait has ended and the timer has fired,
\* max(delay, min(latency, 10)) seconds after the request
C23_DelayOverlapsWait ==
    [][\A t \in Threads :
         LET a == thr[t]
             b == thr'[t]
         IN /\ (a.pc = "send" /\ b.pc = "recv") => (b.timer = "running" /\ clock' = 0)
            /\ (a.pc = "recv" /\ b.pc = "timer") =>
                  /\ b.waited = clock
                  /\ clock <= RecvTimeout
                  /\ b.ntimeouts > a.ntimeouts => clock = RecvTimeout
            /\ (a.pc = "timer" /\ b.pc # "timer") =>
                  /\ b.pc \in {"countdown", "send", "composite"}
                  /\ a.timer = "fired"
                  /\ clock = Max(DelayBetweenShots, Min(a.waited, RecvTimeout))]_vars

\* the second shot's result has come later than the delay and before the
\* 10 s: the timer has fired meanwhile and the shot can be left at once
C23_Witness ==
    \E t \in Threads :
        /\ thr[t].pc = "timer"
        /\ thr[t].timer = "fired"
        /\ thr[t].i = 1
        /\ DelayBetweenShots > 0
        /\ thr[t].waited > DelayBetweenShots
        /\ thr[t].waited < RecvTimeout
        /\ clock = thr[t].waited

\* C24: the selection loop ends: while it runs fewer than 200 polls have been
\* made; every poll, with or without a click, is one more iteration; the loop
\* is left for the print step by a confirming click or by the 200th poll,
\* and then with the copy count selected last; a sequence in the loop
\* reaches the print step
C24_SelectTerminates ==
    /\ [](\A t \in Threads : thr[t].pc = "select" => thr[t].it < SelectIterations)
    /\ [][\A t \in Threads :
            LET a == thr[t]
                b == thr'[t]
            IN (a.pc = "select" /\ b # a) =>
                 /\ \/ b.pc = "select" /\ b.it = a.it + 1
                    \/ b.pc = "print" /\ b.it = a.it /\ click_queue' # click_queue
                          /\ b.ncopies = a.ncopies
                    \/ b.pc = "print" /\ b.it = SelectIterations /\ a.it = SelectIterations - 1
                 /\ click_queue' = click_queue => b.ncopies = a.ncopies]_vars
    /\ \A t \in Threads : (thr[t].pc = "select") ~> (thr[t].pc = "print")

\* the 200th poll has ended a selection in which clicks were read and the
\* copy count was changed
C24_Witness ==
    \E t \in Threads :
        /\ thr[t].pc = "print"
        /\ thr[t].it = SelectIterations
        /\ thr[t].last # NoClick
        /\ thr[t].ncopies # InitialCopies

\* C25: a click read by the selection loop whose y is not strictly between
\* 0.3 and 0.7 is ignored whatever its x: the copy count stays, and the loop
\* goes on to its next pass (it ends there only if that was the 200th pass)
C25_OutsideRowIgnored ==
    [][\A t \in Threads :
         LET a == thr[t]
             b == thr'[t]
         IN (/\ a.pc = "select"
             /\ click_queue # <<>>
             /\ click_queue' = Tail(click_queue)
             /\ ~(30 < Head(click_queue).y /\ Head(click_queue).y < 70)) =>
                /\ b.ncopies = a.ncopies
                /\ b.it = a.it + 1
                /\ b.pc = "select" \/ (b.pc = "print" /\ b.it = SelectIterations)]_vars

\* the loop has read a click above the row with x inside the band, after the
\* copy count was raised, and goes on
C25_Witness ==
    \E t \in Threads :
        /\ thr[t].pc = "select"
        /\ thr[t].last = [x |-> 50, y |-> 70, before |-> 4]
        /\ thr[t].ncopies = 4

\* C28: in the selection loop and in the print step the copy count is one
\* of 0, 2, 4, 6, so copies >> 1 is copies / 2 with nothing lost, and a
\* sequence that printed has run the print command that many times
C28_CopiesEven ==
    \A t \in Threads :
        /\ thr[t].pc \in {"select", "print", "lpr", "dwell"} =>
              /\ thr[t].ncopies \in {0, 2, 4, 6}
              /\ 2 * print_runs(thr[t].ncopies) = thr[t].ncopies
        /\ (thr[t].pc = "dwell" /\ do_print) => 2 * thr[t].nprints = thr[t].ncopies

\* the print step begins with 0 copies, the count having been lowered to 0
\* and a further click left of the band having left it there
C28_Witness ==
    \E t \in Threads :
        /\ thr[t].pc = "print"
        /\ thr[t].ncopies = 0
        /\ thr[t].it = SelectIterations
        /\ thr[t].last.x < 45
        /\ thr[t].last.before = 0

\* C27: in real mode the control worker holds io_lock from the capture to the
\* end of the re-initialisation that follows the sending of the result: the
\* lock is given up only by the step that ends that re-initialisation; the
\* device is re-initialised either after a failed capture, which is then
\* tried again, or after the result was sent; all of it happens under the lock
C27_LockHeldThroughReinit ==
    [][~mock =>
         /\ (io_lock = "control" /\ io_lock' # "control") =>
               (ctrl.pc = "open_config" /\ ctrl.ret = "done" /\ ctrl'.pc = "recv")
         /\ (ctrl.pc # "open_init" /\ ctrl'.pc = "open_init") =>
               \/ ctrl.pc = "capture" /\ ctrl'.ret = "capture"
               \/ ctrl.pc = "send" /\ ctrl'.ret = "done" /\ ctrl'.sends = ctrl.sends + 1
         /\ (ctrl.pc = "open_config" /\ ctrl.ret = "capture" /\ ctrl'.pc # "open_config") =>
               ctrl'.pc = "capture"
         /\ ctrl.pc \in {"capture", "download", "save", "send", "open_init", "open_config"} =>
               io_lock = "control"]_vars

\* C29: a receiver that has connected never goes back to connecting; once the
\* peer has closed and every byte written was read, each read returns no
\* bytes and changes nothing: no frame is given out and no connect is made,
\* whatever becomes of the preview endpoint
C29_NeverReconnects ==
    /\ [][receiver.pc \in {"len", "data"} => receiver'.pc \in {"len", "data"}]_vars
    /\ [][(/\ receiver.pc = "len"
           /\ preview_stream.closed
           /\ preview_stream.flight = <<>>
           /\ preview_stream.buf = <<>>) =>
              (receiver' = receiver /\ preview_stream' = preview_stream)]_vars

\* the peer has closed after a frame was received, nothing is left to read,
\* and the preview endpoint is listening for a new connection
C29_Witness ==
    /\ receiver.pc = "len"
    /\ receiver.emitted # <<>>
    /\ preview_stream.closed
    /\ preview_stream.flight = <<>>
    /\ preview_stream.buf = <<>>
    /\ env.preview_ep = "listening"

====
